---- MODULE Spec2Model ----
(***************************************************************************)
(* A model of the Result library of src/src/result.ts: the constructors,   *)
(* the guards, the combinators applied along a pipe, and the generator     *)
(* driver gen.  JavaScript values are records with a kind field k; a       *)
(* promise is modelled by the way it settles (fulfilled or rejected, and   *)
(* with what); the evaluation of a function is a completion: it returns or *)
(* throws a value, and lists the caller-supplied callbacks it invoked.     *)
(***************************************************************************)
EXTENDS Naturals, Sequences, FiniteSets, TLC

VARIABLES
  pc,        \* chain: "start" | "chain" | "thrown" | "legacy"
  cur,       \* the value the pipe currently holds
  prev,      \* the value the last stage was applied to
  op,        \* the last stage: its name and configuration
  calls,     \* callbacks invoked by the last stage, in order
  raised,    \* the value the last stage threw synchronously (pc = "thrown")
  steps,     \* combinators applied so far
  seed,      \* the value the constructor was given
  escaping,  \* an escaping combinator was applied somewhere in the chain
  abnormal,  \* some callback threw, or returned a promise that rejects
  gpc,       \* gen: "idle" | "created" | "pulled" | "sync" | "async" | "done"
  prog,      \* the generator function handed to gen
  g,         \* the generator object: where it is suspended, what it has seen
  gcur,      \* what the last iterator.next() returned
  pulls,     \* calls of iterator.next() so far
  closes,    \* calls of iterator.return() so far
  stop,      \* the branch through which gen left
  gres,      \* the completion of gen: what it returned, or threw
  rpc,       \* where retry stands: idle, sync, asyncEntry, async, done
  ropts,     \* the options retry was called with, and the version of retry
  rattempt,  \* the local variable attempt of the loop that is running
  rcurrent,  \* the local variable current of the loop that is running
  rfirstDelay, \* retryAsync's parameter firstDelay
  invocations, \* calls of the effect so far
  rlog,      \* the calls retry made, in order: effect, times, delay, sleep
  rres       \* what retry returned

chainVars == <<pc, cur, prev, op, calls, raised, steps, seed, escaping, abnormal>>
genVars == <<gpc, prog, g, gcur, pulls, closes, stop, gres>>
retryVars == <<rpc, ropts, rattempt, rcurrent, rfirstDelay, invocations, rlog, rres>>
vars == <<chainVars, genVars, retryVars>>

\* Bounds of the model: the number of combinators piped after the constructor,
\* the number of yield statements of a generator body ...
MaxChain == 2
MaxYields == 2
\* ... and the number of times retry may invoke its effect.
MaxCalls == 5

-----------------------------------------------------------------------------
\* JavaScript values.

Undef == [k |-> "undef"]
Str(s) == [k |-> "str", s |-> s]
Num(n) == [k |-> "num", n |-> n]
\* A plain object: f maps its own property names to values.
Obj(f) == [k |-> "obj", f |-> f]
\* A promise, by its settlement: st is "fulfilled" or "rejected".
Prom(st, v) == [k |-> "promise", st |-> st, v |-> v]

IsPromise(v) == v.k = "promise"

\* An instance of the class TaggedError(tag) returns: an Error object whose
\* own properties are tag, type = "error", error = this, and cause.
TaggedError(tag, cause) == [k |-> "exc", tag |-> tag, cause |-> cause]

UnknownException(cause) == TaggedError("UnknownException", cause)

\* typeof value === "object" && value (not null)
IsObject(v) == v.k \in {"obj", "exc", "promise"}

\* name in value
HasField(v, name) ==
  CASE v.k = "obj" -> name \in DOMAIN v.f
    [] v.k = "exc" -> name \in {"tag", "type", "error", "cause"}
    [] OTHER -> FALSE

\* value[name]
Field(v, name) ==
  CASE v.k = "obj" /\ name \in DOMAIN v.f -> v.f[name]
    [] v.k = "exc" /\ name = "tag" -> Str(v.tag)
    [] v.k = "exc" /\ name = "type" -> Str("error")
    [] v.k = "exc" /\ name = "error" -> v
    [] v.k = "exc" /\ name = "cause" -> v.cause
    [] OTHER -> Undef

\* The conversion of a value to a boolean (if (value), !value, a ? b : c).
Truthy(v) ==
  CASE v.k = "undef" -> FALSE
    [] v.k = "num" -> v.n # 0
    [] v.k = "str" -> v.s # ""
    [] v.k = "bool" -> v.b
    [] OTHER -> TRUE

Bool(b) == [k |-> "bool", b |-> b]

-----------------------------------------------------------------------------
\* Completions: what evaluating a call produced.

Ret(v) == [out |-> "return", v |-> v, calls |-> <<>>]
Thr(v) == [out |-> "throw", v |-> v, calls |-> <<>>]

\* Evaluate c, then F on what it returned; a throw of c propagates.
Bind(c, F(_)) ==
  IF c.out = "throw" THEN c
  ELSE LET d == F(c.v) IN [d EXCEPT !.calls = c.calls \o d.calls]

\* An options argument the caller left out; a property that is not there.
Absent == [beh |-> "absent"]

TypeError == Obj([name |-> Str("TypeError")])

\* Property names a plain object inherits from Object.prototype (two of them:
\* called as plain functions, toString returns a string and valueOf throws).
InheritedKeys == {"toString", "valueOf"}

\* object[name] for a plain object with the own properties of own.
Lookup(own, name) ==
  IF name \in DOMAIN own THEN own[name]
  ELSE IF name \in InheritedKeys THEN [beh |-> "builtin", name |-> name]
  ELSE Absent

\* A caller-supplied callback is a record saying how it behaves; calling it
\* is logged with its role, its argument and its outcome.
RECURSIVE ok(_)
Behave(cb, arg) ==
  CASE cb.beh = "ret" -> Ret(cb.v)
    [] cb.beh = "throw" -> Thr(cb.v)
    [] cb.beh = "id" -> Ret(arg)
    [] cb.beh = "inc" -> Ret(IF arg.k = "num" THEN Num(arg.n + 1) ELSE arg)
    [] cb.beh = "succeed" -> Ret(ok(arg))
    [] cb.beh = "wrapCause" -> Ret(TaggedError("Fatal", arg))
    [] cb.beh = "positive" -> Ret(Bool(arg.k = "num" /\ arg.n > 0))
    [] cb.beh = "builtin" /\ cb.name = "toString" -> Ret(Str("[object Undefined]"))
    [] cb.beh = "builtin" /\ cb.name = "valueOf" -> Thr(TypeError)

Call(cb, role, arg) ==
  LET c == Behave(cb, arg)
  IN [c EXCEPT !.calls = <<[fn |-> role, arg |-> arg, out |-> c.out, v |-> c.v]>>]

\* promise.then(onFulfilled): a rejection passes through; otherwise the new
\* promise settles as onFulfilled's outcome does (a returned promise is adopted,
\* a throw becomes a rejection).
PromiseThen(p, onFulfilled(_)) ==
  IF p.st = "rejected" THEN Ret(Prom("rejected", p.v))
  ELSE LET c == onFulfilled(p.v)
       IN [out |-> "return",
           v |-> IF c.out = "throw" THEN Prom("rejected", c.v)
                 ELSE IF IsPromise(c.v) THEN c.v
                 ELSE Prom("fulfilled", c.v),
           calls |-> c.calls]

\* promise.catch(onRejected): a fulfilment passes through.
PromiseCatch(p, onRejected(_)) ==
  IF p.st = "fulfilled" THEN Ret(Prom("fulfilled", p.v))
  ELSE LET c == onRejected(p.v)
       IN [out |-> "return",
           v |-> IF c.out = "throw" THEN Prom("rejected", c.v)
                 ELSE IF IsPromise(c.v) THEN c.v
                 ELSE Prom("fulfilled", c.v),
           calls |-> c.calls]

-----------------------------------------------------------------------------
\* Constructors and guards (src/src/result.ts).

ok(value) ==
  IF IsPromise(value)
  THEN PromiseThen(value, LAMBDA x : Ret(ok(x))).v
  ELSE Obj([type |-> Str("ok"), value |-> value])

\* error with the earlier iteration's wiring: the recursion hangs on catch.
errorCatch(err) ==
  IF IsPromise(err)
  THEN PromiseCatch(err,
         LAMBDA x : Ret(Obj([type |-> Str("error"), error |-> x]))).v
  ELSE Obj([type |-> Str("error"), error |-> err])

RECURSIVE error(_)
error(err) ==
  IF IsPromise(err)
  THEN PromiseThen(err, LAMBDA x : Ret(error(x))).v
  ELSE Obj([type |-> Str("error"), error |-> err])

\* The success constructor of the earlier iteration (src/src/2/result.ts).
RECURSIVE success(_)
success(value) ==
  IF IsPromise(value)
  THEN PromiseThen(value, LAMBDA x : Ret(success(x))).v
  ELSE Obj([type |-> Str("success"), value |-> value])

\* The failure constructor of the earlier iteration (src/src/2/result.ts).
RECURSIVE fail(_)
fail(err) ==
  IF IsPromise(err)
  THEN PromiseCatch(err, LAMBDA x : Ret(fail(x))).v
  ELSE Obj([type |-> Str("failure"), error |-> err])

\* isResult looking at the discriminant alone.
isResultLoose(value) ==
  Truthy(value) /\ IsObject(value) /\ Field(value, "type") \in {Str("ok"), Str("error")}

isResult(value) ==
  IF Truthy(value) /\ IsObject(value) /\ HasField(value, "type")
  THEN IF Field(value, "type") = Str("ok") THEN HasField(value, "value")
       ELSE IF Field(value, "type") = Str("error") THEN HasField(value, "error")
       ELSE FALSE
  ELSE FALSE

\* isOk testing the earlier iteration's discriminant.
isOkLegacy(value) == isResult(value) /\ Field(value, "type") = Str("success")

isOk(value) == isResult(value) /\ Field(value, "type") = Str("ok")

\* isError testing the earlier iteration's discriminant.
isErrorLegacy(value) == isResult(value) /\ Field(value, "type") = Str("failure")

isError(value) == isResult(value) /\ Field(value, "type") = Str("error")

\* isTagged that forgets to compare the tag it is given.
isTaggedAnyTag(value, tag) ==
  Truthy(value) /\ IsObject(value) /\ HasField(value, "tag")
  /\ Field(value, "tag").k = "str"

\* tag is Undef when the caller passes no tag.
isTagged(value, tag) ==
  IF Truthy(value) /\ IsObject(value) /\ HasField(value, "tag")
     /\ Field(value, "tag").k = "str"
  THEN IF tag.k = "str" THEN tag = Field(value, "tag") ELSE TRUE
  ELSE FALSE

\* src/src/result.ts:363-368: result instanceof Promise ? result.then(apply)
\* : apply(result)
applyMaybeAsync(result, apply(_)) ==
  IF IsPromise(result) THEN PromiseThen(result, apply) ELSE apply(result)

-----------------------------------------------------------------------------
\* Combinators (src/src/result.ts).  Each operator is the combinator applied
\* to result: its configuration comes first, the piped value last.

\* apply of flatMap, for any callback (src/src/result.ts:747-753).
flatMapApply(callback(_), result) ==
  IF isError(result) THEN Ret(result) ELSE callback(Field(result, "value"))

flatMap(callback, result) ==
  applyMaybeAsync(result,
    LAMBDA r : flatMapApply(LAMBDA x : Call(callback, "callback", x), r))

\* map that applies its callback to failures too.
mapEvery(callback, result) ==
  applyMaybeAsync(result,
    LAMBDA r : Bind(Call(callback, "callback", Field(r, "value")),
                 LAMBDA y : Ret(ok(y))))

map(callback, result) ==
  applyMaybeAsync(result,
    LAMBDA r : flatMapApply(
      LAMBDA x : Bind(Call(callback, "callback", x), LAMBDA y : Ret(ok(y))), r))

\* tap that does not wait for the handle its side effect returns.
tapNoWait(callback, result) ==
  applyMaybeAsync(result,
    LAMBDA r : flatMapApply(
      LAMBDA x : Bind(Call(callback, "callback", x), LAMBDA next : Ret(ok(x))), r))

\* tap that applies its function to the piped value without applyMaybeAsync.
tapDirect(callback, result) ==
  flatMapApply(
    LAMBDA x : Bind(Call(callback, "callback", x),
      LAMBDA next : IF ~IsPromise(next) THEN Ret(ok(x))
                    ELSE PromiseThen(next, LAMBDA u : Ret(ok(x)))), result)

tap(callback, result) ==
  applyMaybeAsync(result,
    LAMBDA r : flatMapApply(
      LAMBDA x : Bind(Call(callback, "callback", x),
        LAMBDA next : IF ~IsPromise(next) THEN Ret(ok(x))
                      ELSE PromiseThen(next, LAMBDA u : Ret(ok(x)))), r))

tapErrorApply(callback, result) ==
  IF isOk(result) THEN Ret(result)
  ELSE Bind(Call(callback, "callback", Field(result, "error")),
         LAMBDA next : IF ~IsPromise(next) THEN Ret(result)
                       ELSE PromiseThen(next, LAMBDA u : Ret(result)))

tapError(callback, result) ==
  applyMaybeAsync(result, LAMBDA r : tapErrorApply(callback, r))

tapErrorTagApply(tag, callback, result) ==
  IF isOk(result) THEN Ret(result)
  ELSE IF ~isTagged(Field(result, "error"), tag) THEN Ret(result)
  ELSE Bind(Call(callback, "callback", Field(result, "error")),
         LAMBDA next : IF ~IsPromise(next) THEN Ret(result)
                       ELSE PromiseThen(next, LAMBDA u : Ret(result)))

tapErrorTag(tag, callback, result) ==
  applyMaybeAsync(result, LAMBDA r : tapErrorTagApply(tag, callback, r))

filterOrElse(predicate, orElse, result) ==
  applyMaybeAsync(result,
    LAMBDA r : flatMapApply(
      LAMBDA x : Bind(Call(predicate, "predicate", x),
        LAMBDA b : IF Truthy(b) THEN Ret(ok(x))
                   ELSE Bind(Call(orElse, "orElse", Undef),
                          LAMBDA y : Ret(ok(y)))), r))

\* filterOrFail that calls orFailWith without the value, as filterOrElse calls
\* its orElse.
filterOrFailBlind(predicate, orFailWith, result) ==
  applyMaybeAsync(result,
    LAMBDA r : flatMapApply(
      LAMBDA x : Bind(Call(predicate, "predicate", x),
        LAMBDA b : IF Truthy(b) THEN Ret(ok(x))
                   ELSE Bind(Call(orFailWith, "orFailWith", Undef),
                          LAMBDA y : Ret(error(y)))), r))

filterOrFail(predicate, orFailWith, result) ==
  applyMaybeAsync(result,
    LAMBDA r : flatMapApply(
      LAMBDA x : Bind(Call(predicate, "predicate", x),
        LAMBDA b : IF Truthy(b) THEN Ret(ok(x))
                   ELSE Bind(Call(orFailWith, "orFailWith", x),
                          LAMBDA y : Ret(error(y)))), r))

filterOrDie(predicate, orDie, result) ==
  applyMaybeAsync(result,
    LAMBDA r : flatMapApply(
      LAMBDA x : Bind(Call(predicate, "predicate", x),
        LAMBDA b : IF Truthy(b) THEN Ret(ok(x))
                   ELSE Call(orDie, "orDie", Undef)), r))

catchAllApply(handle, result) ==
  IF isOk(result) THEN Ret(result)
  ELSE Call(handle, "handle", Field(result, "error"))

catchAll(handle, result) ==
  applyMaybeAsync(result, LAMBDA r : catchAllApply(handle, r))

catchIfApply(predicate, handle, result) ==
  IF isOk(result) THEN Ret(result)
  ELSE Bind(Call(predicate, "predicate", Field(result, "error")),
         LAMBDA b : IF ~Truthy(b) THEN Ret(result)
                    ELSE Call(handle, "handle", Field(result, "error")))

catchIf(predicate, handle, result) ==
  applyMaybeAsync(result, LAMBDA r : catchIfApply(predicate, handle, r))

catchSomeApply(handle, result) ==
  IF isOk(result) THEN Ret(result)
  ELSE Bind(Call(handle, "handle", Field(result, "error")),
         LAMBDA next : IF isResult(next) THEN Ret(next) ELSE Ret(result))

catchSome(handle, result) ==
  applyMaybeAsync(result, LAMBDA r : catchSomeApply(handle, r))

catchTagApply(tag, handle, result) ==
  IF isOk(result) THEN Ret(result)
  ELSE IF ~isTagged(Field(result, "error"), tag) THEN Ret(result)
  ELSE Call(handle, "handle", Field(result, "error"))

catchTag(tag, handle, result) ==
  applyMaybeAsync(result, LAMBDA r : catchTagApply(tag, handle, r))

\* handlers is a function from tag strings to callbacks.
catchTagsApply(handlers, result) ==
  IF isOk(result) THEN Ret(result)
  ELSE IF ~isTagged(Field(result, "error"), Undef) THEN Ret(result)
  ELSE LET t == Field(Field(result, "error"), "tag").s
           handler == Lookup(handlers, t)
       IN IF handler = Absent THEN Ret(result)
          ELSE Call(handler, t, Field(result, "error"))

catchTags(handlers, result) ==
  applyMaybeAsync(result, LAMBDA r : catchTagsApply(handlers, r))

orElseApply(handle, result) ==
  IF isOk(result) THEN Ret(result)
  ELSE Call(handle, "handle", Field(result, "error"))

orElse(handle, result) ==
  applyMaybeAsync(result, LAMBDA r : orElseApply(handle, r))

orElseFailApply(mapErr, result) ==
  IF isOk(result) THEN Ret(result)
  ELSE Bind(Call(mapErr, "mapError", Field(result, "error")),
         LAMBDA y : Ret(error(y)))

orElseFail(mapErr, result) ==
  applyMaybeAsync(result, LAMBDA r : orElseFailApply(mapErr, r))

mapError(callback, result) == orElseFail(callback, result)

orElseSucceedApply(value, result) ==
  IF isOk(result) THEN Ret(result)
  ELSE Bind(Call(value, "value", Field(result, "error")),
         LAMBDA y : Ret(ok(y)))

orElseSucceed(value, result) ==
  applyMaybeAsync(result, LAMBDA r : orElseSucceedApply(value, r))

\* apply of orDie handing the failure on.
orDieApplyKeeps(result) == Ret(result)

orDieApply(result) ==
  IF isOk(result) THEN Ret(result) ELSE Thr(Field(result, "error"))

orDie(result) == applyMaybeAsync(result, orDieApply)

\* apply of orDieWith raising the payload it was given, unmapped.
orDieWithApplyUnmapped(mapErr, result) ==
  IF isOk(result) THEN Ret(result)
  ELSE Bind(Call(mapErr, "mapError", Field(result, "error")),
         LAMBDA y : Thr(Field(result, "error")))

orDieWithApply(mapErr, result) ==
  IF isOk(result) THEN Ret(result)
  ELSE Bind(Call(mapErr, "mapError", Field(result, "error")),
         LAMBDA y : Thr(y))

orDieWith(mapErr, result) ==
  applyMaybeAsync(result, LAMBDA r : orDieWithApply(mapErr, r))

-----------------------------------------------------------------------------
\* schema (src/unnamed/part_003 and, for the earlier iteration, part_008).  A
\* Standard Schema is a record saying what its validate returns: { value } or
\* { issues }, as it is or behind a handle.

\* new SchemaError(issues) / new StandardSchemaError(issues): a TaggedError
\* instance that carries the issues.
SchemaError(tag, issues) ==
  [k |-> "exc", tag |-> tag, cause |-> Undef, issues |-> issues]

validationToResult(validation) ==
  IF ~Truthy(Field(validation, "issues")) THEN ok(Field(validation, "value"))
  ELSE error(SchemaError("SchemaError", Field(validation, "issues")))

validateMaybeAsync(s, value) ==
  Bind(Call(s, "validate", value),
    LAMBDA validation :
      IF IsPromise(validation)
      THEN PromiseThen(validation, LAMBDA x : Ret(validationToResult(x)))
      ELSE Ret(validationToResult(validation)))

\* throw Error("TODO: not implemented")
NotImplemented == Obj([name |-> Str("Error")])

\* apply of the earlier iteration's schema.
schemaApply(s, result) ==
  IF isError(result) THEN Ret(result)
  ELSE Bind(Call(s, "validate", Field(result, "value")),
         LAMBDA validation :
           IF IsPromise(validation) THEN Thr(NotImplemented)
           ELSE IF ~Truthy(Field(validation, "issues"))
                THEN Ret(ok(Field(validation, "value")))
                ELSE Ret(error(SchemaError("StandardSchemaError",
                                           Field(validation, "issues")))))

\* version 1 is the earlier iteration (part_008), version 2 the later one
\* (part_003).
schema(version, s, result) ==
  IF version = 1
  THEN applyMaybeAsync(result, LAMBDA r : schemaApply(s, r))
  ELSE applyMaybeAsync(result,
         LAMBDA r : flatMapApply(LAMBDA x : validateMaybeAsync(s, x), r))

-----------------------------------------------------------------------------
\* Guarded invocation (src/src/result.ts).

\* try { c } catch (cause) { H(cause) }
Catch(c, H(_)) ==
  IF c.out = "throw"
  THEN LET d == H(c.v) IN [d EXCEPT !.calls = c.calls \o d.calls]
  ELSE c

\* await v
Await(v) ==
  IF IsPromise(v) THEN (IF v.st = "fulfilled" THEN Ret(v.v) ELSE Thr(v.v))
  ELSE Ret(v)

\* The promise an async function returns for a body that completed as c.
AsyncReturn(c) ==
  [out |-> "return",
   v |-> IF c.out = "throw" THEN Prom("rejected", c.v)
         ELSE IF IsPromise(c.v) THEN c.v
         ELSE Prom("fulfilled", c.v),
   calls |-> c.calls]

\* The function try(callback, onError) returns, called.
trySync(callback, onError) ==
  Catch(Bind(Call(callback, "callback", Undef), LAMBDA value : Ret(ok(value))),
        LAMBDA cause :
          IF onError # Absent
          THEN Bind(Call(onError, "onError", cause), LAMBDA e : Ret(error(e)))
          ELSE Ret(error(UnknownException(cause))))

\* The function tryPromise(callback, onError) returns, called.
tryPromise(callback, onError) ==
  AsyncReturn(
    Catch(Bind(Call(callback, "callback", Undef),
            LAMBDA p : IF IsPromise(p)
                       THEN Bind(PromiseThen(p, LAMBDA x : Ret(ok(x))), Await)
                       ELSE Thr(TypeError)),
          LAMBDA cause :
            IF onError = Absent THEN Ret(error(UnknownException(cause)))
            ELSE Bind(Bind(Call(onError, "onError", cause), Await),
                   LAMBDA handled : Ret(error(handled)))))

\* onError of wrap, whose default is (error) => new UnknownException({ cause: error }).
WrapOnError(onError, cause) ==
  IF onError = Absent THEN Ret(UnknownException(cause))
  ELSE Call(onError, "onError", cause)

\* The function wrap(callback, onError) of the earlier iteration returns, called
\* (src/src/2/result.ts).
wrap(callback, onError) ==
  Catch(Bind(Call(callback, "callback", Undef),
          LAMBDA value :
            IF ~IsPromise(value) THEN Ret(success(value))
            ELSE Bind(PromiseThen(value, LAMBDA x : Ret(success(x))),
                   LAMBDA p : PromiseCatch(p,
                     LAMBDA e : Bind(WrapOnError(onError, e),
                                  LAMBDA y : Ret(fail(y)))))),
        LAMBDA e : Bind(WrapOnError(onError, e), LAMBDA y : Ret(fail(y))))

-----------------------------------------------------------------------------
\* Generators, as gen sees them.  A generator function is a record: its body
\* is a sequence of yield statements followed by one closing statement, a
\* try/finally block may enclose the statements tryFrom..tryTo, and kind says
\* what sort of iterator calling it produces.  The body is written down as it
\* runs: a statement joins body when the generator reaches it.
\*   "sync"            function*
\*   "async"           async function* (it awaits what it yields and returns)
\*   "wrapped"         a function* behind an object with Symbol.asyncIterator
\*                     whose next and return answer Promise.resolve(...)
\*   "syncClaimsAsync" a function* whose iterator also has Symbol.asyncIterator
\*   "asyncNextOnly"   next answers a promise, Symbol.asyncIterator is missing

SyncNextKinds == {"sync", "syncClaimsAsync"}
AsyncIteratorKinds == {"async", "wrapped", "syncClaimsAsync"}

\* The object iterator.next() and iterator.return() answer.
IterObj(done, value) == Obj([done |-> Bool(done), value |-> value])

\* The generator object before its first next().
FreshGenerator ==
  [state |-> "start", pos |-> 0, received |-> <<>>, finRuns |-> 0,
   throws |-> <<>>, returned |-> <<>>]

InTry(p, i) == p.tryFrom # 0 /\ p.tryFrom <= i /\ i <= p.tryTo

\* What the finally block throws when it throws.
CleanupError == Str("cleanup")

\* The generator leaves statement j for good, returning or throwing v; an
\* enclosing finally block runs first, and what it throws wins.
Leave(p, gen0, j, how, v) ==
  LET ran == InTry(p, j)
      over == ran /\ p.fin = "throw"
      x == IF over THEN CleanupError ELSE v
      thrown == over \/ how = "throw"
  IN [g |-> [gen0 EXCEPT !.state = "completed",
                         !.finRuns = IF ran THEN @ + 1 ELSE @,
                         !.throws = IF thrown THEN Append(@, x) ELSE @,
                         !.returned = IF thrown THEN @ ELSE Append(@, x)],
      out |-> IF thrown THEN "throw" ELSE "return",
      v |-> IF thrown THEN x ELSE IterObj(TRUE, x)]

Last(seq) == IF seq = <<>> THEN Undef ELSE seq[Len(seq)]

\* The generator runs statement j.
ExecStmt(p, gen0, j) ==
    LET st == p.body[j]
        awaits == p.kind \in {"async", "asyncNextOnly"}
    IN CASE st.s = "end" -> Leave(p, gen0, j, "return", Undef)
         [] st.s = "yield" ->
              IF awaits /\ IsPromise(st.v) /\ st.v.st = "rejected"
              THEN Leave(p, gen0, j, "throw", st.v.v)
              ELSE [g |-> [gen0 EXCEPT !.state = "suspended", !.pos = j],
                    out |-> "return",
                    v |-> IterObj(FALSE,
                            IF awaits /\ IsPromise(st.v) THEN st.v.v ELSE st.v)]
         [] st.s = "return" -> Leave(p, gen0, j, "return", st.v)
         [] st.s = "returnSent" ->
              Leave(p, gen0, j, "return", Last(gen0.received))
         [] st.s = "returnSentPlus1" ->
              Leave(p, gen0, j, "return",
                    LET n == Last(gen0.received)
                    IN IF n.k = "num" THEN Num(n.n + 1) ELSE n)
         [] st.s = "throw" -> Leave(p, gen0, j, "throw", st.v)

\* generator.next(sent) of a function* object.
GenNext(p, gen0, sent) ==
  CASE gen0.state = "completed" ->
         [g |-> gen0, out |-> "return", v |-> IterObj(TRUE, Undef)]
    [] gen0.state = "start" -> ExecStmt(p, gen0, 1)
    [] gen0.state = "suspended" ->
         LET g1 == [gen0 EXCEPT !.received = Append(@, sent)]
             i == gen0.pos
         IN IF InTry(p, i) /\ ~InTry(p, i + 1)
            THEN \* the try block ends: its finally block runs
                 LET g2 == [g1 EXCEPT !.finRuns = @ + 1]
                 IN IF p.fin = "throw"
                    THEN [g |-> [g2 EXCEPT !.state = "completed",
                                           !.throws = Append(@, CleanupError)],
                          out |-> "throw", v |-> CleanupError]
                    ELSE ExecStmt(p, g2, i + 1)
            ELSE ExecStmt(p, g1, i + 1)

\* generator.return(v) of a function* object.
GenReturn(p, gen0, v) ==
  IF gen0.state = "suspended"
  THEN LET r == Leave(p, gen0, gen0.pos, "return", v)
       IN [r EXCEPT !.g.returned = gen0.returned]
  ELSE [g |-> [gen0 EXCEPT !.state = "completed"],
        out |-> "return", v |-> IterObj(TRUE, v)]

\* What the iterator's method answers, given what the function* object did.
Answer(p, r) ==
  CASE p.kind \in SyncNextKinds -> r
    [] p.kind \in {"async", "asyncNextOnly"} ->
         [r EXCEPT !.out = "return",
                   !.v = Prom(IF r.out = "throw" THEN "rejected" ELSE "fulfilled", r.v)]
    [] p.kind = "wrapped" ->
         IF r.out = "throw" THEN r ELSE [r EXCEPT !.v = Prom("fulfilled", r.v)]

\* iterator.next(sent)
IteratorNext(p, gen0, sent) == Answer(p, GenNext(p, gen0, sent))

\* iterator.return(v)
IteratorReturn(p, gen0, v) == Answer(p, GenReturn(p, gen0, v))

-----------------------------------------------------------------------------
\* gen and its helpers (src/src/result.ts).

\* genFailure handing the cause on as the payload.
genFailureBare(cause) == error(cause)

genFailure(cause) == error(UnknownException(cause))

\* isAsyncIterator judging the iterator by what its next answers.
isAsyncIteratorByNext(p) == p.kind \notin SyncNextKinds

isAsyncIterator(p) == p.kind \in AsyncIteratorKinds

\* normalizeReturnValue wrapping whatever was returned.
normalizeReturnValueAlways(value) == ok(value)

normalizeReturnValue(value) == IF isResult(value) THEN value ELSE ok(value)

\* closeIterator leaving the iterator as it is.
closeIteratorSkipped(p, gen0, result) ==
  [g |-> gen0, out |-> "return", v |-> IterObj(TRUE, result)]

\* Both close the iterator; every iterator modelled has a return method.
closeIterator(p, gen0, result) == IteratorReturn(p, gen0, result)

closeAsyncIterator(p, gen0, result) ==
  LET r == IteratorReturn(p, gen0, result)
  IN IF r.out = "return" /\ IsPromise(r.v) /\ r.v.st = "rejected"
     THEN [r EXCEPT !.out = "throw", !.v = r.v.v]
     ELSE r

\* What one pass of a driver's loop comes to: gen returns (fin) or goes round
\* again with what the next pull answered.
Finish(why, c, gen0, closed, pulled) ==
  [fin |-> TRUE, why |-> why, res |-> c, g |-> gen0, closed |-> closed,
   pulled |-> pulled, next |-> Undef]

Continue(r) ==
  [fin |-> FALSE, why |-> "none", res |-> Ret(Undef), g |-> r.g, closed |-> FALSE,
   pulled |-> TRUE, next |-> r.v]

\* One pass of the loop of runSyncGen, current being the iterator result at
\* hand; the catch clause of runSyncGen is around it.
runSyncGen(p, gen0, current) ==
  IF Truthy(Field(current, "done"))
  THEN Finish("return", Ret(normalizeReturnValue(Field(current, "value"))), gen0, FALSE, FALSE)
  ELSE LET yielded == Field(current, "value")
       IN IF ~isResult(yielded)
          THEN Finish("malformed", Ret(genFailure(yielded)), gen0, FALSE, FALSE)
          ELSE IF isError(yielded)
          THEN LET c == closeIterator(p, gen0, yielded)
               IN IF c.out = "throw"
                  THEN Finish("failure", Ret(genFailure(c.v)), c.g, TRUE, FALSE)
                  ELSE Finish("failure", Ret(yielded), c.g, TRUE, FALSE)
          ELSE LET r == IteratorNext(p, gen0, Field(yielded, "value"))
               IN IF r.out = "throw"
                  THEN Finish("threw", Ret(genFailure(r.v)), r.g, FALSE, TRUE)
                  ELSE Continue(r)

\* One pass of the loop of runAsyncGen, pending being the promise of the
\* iterator result that is awaited first; the catch clause of runAsyncGen is
\* around it, and the async function wraps what it returns in a promise.
runAsyncGen(p, gen0, pending) ==
  LET cur0 == Await(pending)
  IN IF cur0.out = "throw"
     THEN Finish("threw", AsyncReturn(Ret(genFailure(cur0.v))), gen0, FALSE, FALSE)
     ELSE
     LET current == cur0.v
     IN IF Truthy(Field(current, "done"))
        THEN Finish("return",
               AsyncReturn(Ret(normalizeReturnValue(Field(current, "value")))),
               gen0, FALSE, FALSE)
        ELSE LET yielded == Field(current, "value")
                 res0 == Await(yielded)
             IN IF res0.out = "throw"
                THEN Finish("rejected", AsyncReturn(Ret(genFailure(res0.v))), gen0, FALSE, FALSE)
                ELSE
                LET resolved == res0.v
                IN IF ~isResult(resolved)
                   THEN Finish("malformed", AsyncReturn(Ret(genFailure(resolved))),
                               gen0, FALSE, FALSE)
                   ELSE IF isError(resolved)
                   THEN LET c == closeAsyncIterator(p, gen0, resolved)
                        IN IF c.out = "throw"
                           THEN Finish("failure", AsyncReturn(Ret(genFailure(c.v))),
                                       c.g, TRUE, FALSE)
                           ELSE Finish("failure", AsyncReturn(Ret(resolved)), c.g, TRUE, FALSE)
                   ELSE LET r == IteratorNext(p, gen0, Field(resolved, "value"))
                        IN IF r.out = "throw"
                           THEN Finish("threw", AsyncReturn(Ret(genFailure(r.v))),
                                       r.g, FALSE, TRUE)
                           ELSE Continue(r)

-----------------------------------------------------------------------------
\* retry and eventually (src/src/retries.ts).  The file holds two versions of
\* retry: the first goes with the Results of src/src/index.ts (discriminant
\* type), the second with those of the tag iteration (discriminant tag).

\* The attempt cap when options.times is left out.
DefaultTimes == 3

\* The name of the discriminant retry tests: current.type / current.tag.
Discriminant(version) == IF version = 1 THEN "type" ELSE "tag"

\* ok(value) and error(err) of the library the version imports.
ResultOk(version, value) ==
  IF version = 1 THEN Obj([type |-> Str("ok"), value |-> value])
  ELSE Obj([tag |-> Str("ok"), value |-> value])

ResultError(version, err) ==
  IF version = 1 THEN Obj([type |-> Str("error"), error |-> err])
  ELSE Obj([tag |-> Str("error"), error |-> err])

\* The context { attempt, error } handed to times and delay.
RetryContext(n, result) == [attempt |-> n, error |-> Field(result, "error")]

\* resolveTimes counting the attempt that is about to be made as well.
resolveTimesInclusive(times, context) ==
  CASE times.k = "undef" -> [v |-> context.attempt <= DefaultTimes, calls |-> <<>>]
    [] times.k = "num" -> [v |-> context.attempt <= times.n, calls |-> <<>>]
    [] OTHER -> [v |-> TRUE, calls |-> <<>>]

\* resolveTimes(times, context): whether to go on, and the call it made.
resolveTimes(times, context) ==
  CASE times.k = "undef" -> [v |-> context.attempt < DefaultTimes, calls |-> <<>>]
    [] times.k = "num" -> [v |-> context.attempt < times.n, calls |-> <<>>]
    [] times.k = "inf" -> [v |-> TRUE, calls |-> <<>>]
    [] times.k = "fn" ->
         [v |-> CASE times.beh = "attemptBelow" -> context.attempt < times.n
                  [] times.beh = "never" -> FALSE
                  [] times.beh = "errorBelow" ->
                       context.error.k = "num" /\ context.error.n < times.n,
          calls |-> <<[ev |-> "times", attempt |-> context.attempt,
                       error |-> context.error]>>]

\* resolveDelay(delay, context): the milliseconds to wait, and the call it made.
resolveDelay(delay, context) ==
  CASE delay.k = "undef" -> [v |-> 0, calls |-> <<>>]
    [] delay.k = "num" -> [v |-> delay.n, calls |-> <<>>]
    [] delay.k = "fn" ->
         [v |-> CASE delay.beh = "ret" -> delay.n
                  [] delay.beh = "afterFirst" ->
                       IF context.attempt = 0 THEN 0 ELSE delay.n,
          calls |-> <<[ev |-> "delay", attempt |-> context.attempt,
                       error |-> context.error]>>]

\* await sleep(ms)
sleep(ms) == <<[ev |-> "sleep", ms |-> ms]>>

\* What the n-th call of the effect returns: a success or a failure that
\* carries n, resolved or behind a handle.
EffectOutcomes ==
  {[handle |-> h, succeeds |-> b] : h \in BOOLEAN, b \in BOOLEAN}

EffectResult(version, n, outcome) ==
  LET r == IF outcome.succeeds THEN ResultOk(version, Str("yes"))
           ELSE ResultError(version, Num(n))
  IN IF outcome.handle THEN Prom("fulfilled", r) ELSE r

\* The call of the effect as rlog keeps it; kept says whether retry looked at
\* what the call returned.
EffectEvent(n, out, kept) == [ev |-> "effect", n |-> n, out |-> out, kept |-> kept]

\* retry moves on: the loop variables, the log grown by events, and, when it
\* returns, what it returned.
RetryGoes(to, n, cur0, fd, events, res) ==
  /\ rpc' = to
  /\ rattempt' = n
  /\ rcurrent' = cur0
  /\ rfirstDelay' = fd
  /\ rlog' = rlog \o events
  /\ rres' = res
  /\ invocations' =
       invocations + Cardinality({i \in DOMAIN events : events[i].ev = "effect"})
  /\ UNCHANGED <<chainVars, genVars>>

RetryReturns(result, events) ==
  RetryGoes("done", rattempt, rcurrent, rfirstDelay, events, result)

\* retry(effect, options) up to its loop, the first call of the effect
\* returning first.
RetryEnters(o, first) ==
  /\ ropts' = o
  /\ IF IsPromise(first)
     THEN \* return retryAsync(effect, options)
          RetryGoes("asyncEntry", 0, Undef, Undef,
                    <<EffectEvent(1, first, FALSE)>>, Undef)
     ELSE
     LET called == <<EffectEvent(1, first, TRUE)>>
     IN IF Field(first, Discriminant(o.version)) = Str("ok")
        THEN RetryGoes("done", 0, Undef, Undef, called, first)
        ELSE IF o.version = 1
        THEN LET d == resolveDelay(o.delay, RetryContext(0, first))
                 t == resolveTimes(o.times, RetryContext(0, first))
                 events == called \o d.calls \o t.calls
             IN IF ~t.v THEN RetryGoes("done", 0, Undef, Undef, events, first)
                ELSE IF d.v > 0
                THEN RetryGoes("async", 0, first, Num(d.v), events, Undef)
                ELSE RetryGoes("sync", 0, first, Undef, events, Undef)
        ELSE RetryGoes("sync", 0, first, Undef, called, Undef)

-----------------------------------------------------------------------------
\* The inputs the model draws from.

Nums == {Num(0), Num(1)}

\* Failure payloads and success values: primitives, undefined, objects that are
\* tagged, untagged, or carry a tag that is not a string.
Payloads ==
  Nums \cup {Str("boom"), Undef, Obj(<<>>), Obj([tag |-> Num(1)]),
             Obj([tag |-> Str("X")]), Obj([tag |-> Str("Y")]),
             Obj([tag |-> Str("toString")]), Obj([tag |-> Str("valueOf")])}

Settled(S) == {Prom(st, v) : st \in {"fulfilled", "rejected"}, v \in S}

ConstructorInputs == Payloads \cup Settled({Num(1), Obj([tag |-> Str("X")])})

Returns(S) == {[beh |-> "ret", v |-> v] : v \in S}
Throws(S) == {[beh |-> "throw", v |-> v] : v \in S}

\* x => value callbacks (map, mapError, orElseFail, orElseSucceed, orDieWith,
\* orElse of filterOrElse, orFailWith).
ValueCbs ==
  Returns({Num(1), Obj([tag |-> Str("Y")])}) \cup Throws({Str("boom")})
  \cup {[beh |-> "id"], [beh |-> "inc"]}

\* Side effects (tap, tapError, tapErrorTag): void | Promise<void>.
EffectCbs ==
  Returns({Undef, Prom("fulfilled", Undef), Prom("rejected", Str("boom"))})
  \cup Throws({Str("boom")})

\* x => Result callbacks (flatMap, catchAll, catchIf, catchTag, catchTags, orElse).
ResultCbs ==
  Returns({ok(Num(1)), error(Str("boom")), ok(Prom("fulfilled", Num(1))),
           error(Prom("fulfilled", Obj([tag |-> Str("X")])))})
  \cup Throws({Str("boom")})

\* flatMap's callback may also be x => ok(x).
FlatMapCbs == ResultCbs \cup {[beh |-> "succeed"]}

\* catchSome's handler may also return undefined.
SomeCbs == ResultCbs \cup Returns({Undef})

PredicateCbs ==
  Returns({Bool(TRUE), Bool(FALSE)}) \cup {[beh |-> "positive"]}
  \cup Throws({Str("boom")})

\* What validate returns: a value or issues, at once or behind a handle.
Validations ==
  {Obj([value |-> Num(1)]), Obj([issues |-> Str("not a string")])}

Schemas == Returns(Validations \cup {Prom("fulfilled", x) : x \in Validations})

SchemaVersions == {1, 2}

\* mapError of orDieWith: also e => new Fatal({ cause: e }).
DieWithCbs == ValueCbs \cup {[beh |-> "wrapCause"]}

\* orDie of filterOrDie: () => never.
DieCbs == Throws({Str("die")})

Tags == {Str("X"), Str("UnknownException")}

HandlerMaps ==
  {<<>>, [X |-> [beh |-> "ret", v |-> ok(Num(1))]],
   [X |-> [beh |-> "ret", v |-> ok(Num(1))],
    Y |-> [beh |-> "ret", v |-> error(Str("boom"))]],
   [Y |-> [beh |-> "throw", v |-> Str("boom")]]}

\* Callbacks handed to try / tryPromise.
TryCbs == Returns({Num(1)}) \cup Throws({Str("boom")})
TryPromiseCbs ==
  Returns({Prom("fulfilled", Num(1)), Prom("rejected", Str("boom"))})
  \cup Throws({Str("boom")})
OnErrorCbs ==
  {Absent} \cup Returns({Obj([tag |-> Str("X")])}) \cup Throws({Str("boom")})


\* What a generator body yields: successes, failures, an instance of a
\* TaggedError class, values that are no Result, and handles.
YieldValues ==
  {ok(Num(1)), error(Str("boom")), TaggedError("X", Undef),
   Num(1), Obj([type |-> Str("ok")]),
   Prom("fulfilled", ok(Num(0))), Prom("fulfilled", error(Str("late"))),
   Prom("rejected", Str("boom"))}

YieldStmts == {[s |-> "yield", v |-> v] : v \in YieldValues}

\* How a body ends: a return, a throw, or its last line.
ClosingStmts ==
  {[s |-> "return", v |-> Num(2)], [s |-> "return", v |-> ok(Str("done"))],
   [s |-> "return", v |-> error(Str("bad"))],
   [s |-> "returnSentPlus1"], [s |-> "returnSent"],
   [s |-> "throw", v |-> Str("thrown")], [s |-> "end"]}

\* The statements that may follow the statements of body.
NextStmts(body) ==
  IF body # <<>> /\ body[Len(body)].s # "yield" THEN {}
  ELSE ClosingStmts \cup (IF Len(body) < MaxYields THEN YieldStmts ELSE {})

\* No try block, or one around the statements from..to.
TryBlocks ==
  {[from |-> 0, to |-> 0, fin |-> "plain"]}
  \cup {[from |-> f, to |-> t, fin |-> x] :
          f \in 1..(MaxYields + 1), t \in 1..(MaxYields + 1),
          x \in {"plain", "throw"}}

GeneratorFunction(kind, creation, t) ==
  [kind |-> kind, creation |-> creation, body |-> <<>>,
   tryFrom |-> t.from, tryTo |-> t.to, fin |-> t.fin]

\* The generator functions handed to gen: generators of the three flavors
\* gen drives, iterators whose flavor is inconsistent, and a function that
\* throws when called.
Programs ==
  {GeneratorFunction(kind, "ok", t) :
     kind \in {"sync", "async", "wrapped", "syncClaimsAsync", "asyncNextOnly"},
     t \in {b \in TryBlocks : b.from <= b.to}}
  \cup {GeneratorFunction("sync", "throw", [from |-> 0, to |-> 0, fin |-> "plain"])}

\* p with the statement st reached.
Reaching(p, st) == [p EXCEPT !.body = Append(@, st)]

\* What retry is given as times and as delay: left out, a number, a function
\* of the context.  eventually passes Number.POSITIVE_INFINITY as times.
TimesOptions ==
  {Undef, Num(0), Num(1), Num(2),
   [k |-> "fn", beh |-> "attemptBelow", n |-> 1],
   [k |-> "fn", beh |-> "never", n |-> 0],
   [k |-> "fn", beh |-> "errorBelow", n |-> 2]}

Infinity == [k |-> "inf"]

DelayOptions ==
  {Undef, Num(0), Num(5),
   [k |-> "fn", beh |-> "ret", n |-> 0],
   [k |-> "fn", beh |-> "ret", n |-> 5],
   [k |-> "fn", beh |-> "afterFirst", n |-> 5]}

RetryVersions == {1, 2}

\* What calling the generator function throws when it throws.
CreationError == Str("create")

-----------------------------------------------------------------------------
\* The chain: a Result is constructed, then piped through combinators
\* (src/src/pipe.ts: functions.reduce((value, fn) => fn(value), input)).

EscapingNames == {"orDie", "orDieWith", "filterOrDie"}

\* A callback left abnormally: it threw, or the promise it returned rejects.
AbnormalCall(call) ==
  call.out = "throw" \/ (IsPromise(call.v) /\ call.v.st = "rejected")

Init ==
  /\ pc = "start"
  /\ cur = Undef
  /\ prev = Undef
  /\ op = [name |-> "none", cfg |-> <<>>]
  /\ calls = <<>>
  /\ raised = Undef
  /\ steps = 0
  /\ seed = Undef
  /\ escaping = FALSE
  /\ abnormal = FALSE
  /\ gpc = "idle"
  /\ prog = Absent
  /\ g = FreshGenerator
  /\ gcur = Undef
  /\ pulls = 0
  /\ closes = 0
  /\ stop = "none"
  /\ gres = Ret(Undef)
  /\ rpc = "idle"
  /\ ropts = Absent
  /\ rattempt = 0
  /\ rcurrent = Undef
  /\ rfirstDelay = Undef
  /\ invocations = 0
  /\ rlog = <<>>
  /\ rres = Undef

\* The first stage: a constructor or a guarded invocation produced c.
Start(name, given, cfg, c) ==
  /\ pc = "start"
  /\ seed' = given
  /\ pc' = IF c.out = "throw" THEN "thrown" ELSE "chain"
  /\ cur' = IF c.out = "throw" THEN Undef ELSE c.v
  /\ raised' = IF c.out = "throw" THEN c.v ELSE Undef
  /\ prev' = Undef
  /\ op' = [name |-> name, cfg |-> cfg]
  /\ calls' = c.calls
  /\ abnormal' = \E i \in DOMAIN c.calls :
                    c.calls[i].fn = "onError" /\ AbnormalCall(c.calls[i])
  /\ UNCHANGED <<steps, escaping, genVars, retryVars>>

\* One step of pipe's reduce: the combinator applied to cur completed as c.
Stage(name, cfg, c) ==
  /\ pc = "chain"
  /\ steps < MaxChain
  /\ pc' = IF c.out = "throw" THEN "thrown" ELSE "chain"
  /\ cur' = IF c.out = "throw" THEN Undef ELSE c.v
  /\ raised' = IF c.out = "throw" THEN c.v ELSE Undef
  /\ prev' = cur
  /\ op' = [name |-> name, cfg |-> cfg]
  /\ calls' = c.calls
  /\ steps' = steps + 1
  /\ escaping' = (escaping \/ name \in EscapingNames)
  /\ abnormal' = (abnormal \/ \E i \in DOMAIN c.calls : AbnormalCall(c.calls[i]))
  /\ UNCHANGED <<seed, genVars, retryVars>>

ConstructOk == \E v \in ConstructorInputs : Start("ok", v, <<v>>, Ret(ok(v)))

ConstructError == \E v \in ConstructorInputs : Start("error", v, <<v>>, Ret(error(v)))

ConstructTry ==
  \E cb \in TryCbs, onError \in OnErrorCbs :
    Start("try", Undef, <<cb, onError>>, trySync(cb, onError))

ConstructTryPromise ==
  \E cb \in TryPromiseCbs, onError \in OnErrorCbs :
    Start("tryPromise", Undef, <<cb, onError>>, tryPromise(cb, onError))

\* The earlier iteration's failure constructor; its results are not piped
\* through this iteration's combinators.
ConstructFail ==
  \E v \in ConstructorInputs :
    /\ pc = "start"
    /\ pc' = "legacy"
    /\ cur' = fail(v)
    /\ op' = [name |-> "fail", cfg |-> <<v>>]
    /\ seed' = v
    /\ UNCHANGED <<prev, calls, raised, steps, escaping, abnormal, genVars, retryVars>>

\* The earlier iteration's guarded invocation; it takes callbacks of both
\* flavors.
ConstructWrap ==
  \E cb \in TryCbs \cup TryPromiseCbs, onError \in OnErrorCbs :
    LET c == wrap(cb, onError)
    IN /\ pc = "start"
       /\ pc' = IF c.out = "throw" THEN "thrown" ELSE "legacy"
       /\ cur' = IF c.out = "throw" THEN Undef ELSE c.v
       /\ raised' = IF c.out = "throw" THEN c.v ELSE Undef
       /\ op' = [name |-> "wrap", cfg |-> <<cb, onError>>]
       /\ calls' = c.calls
       /\ UNCHANGED <<prev, seed, steps, escaping, abnormal, genVars, retryVars>>

ApplyFlatMap == \E cb \in FlatMapCbs : Stage("flatMap", <<cb>>, flatMap(cb, cur))

ApplyMap == \E cb \in ValueCbs : Stage("map", <<cb>>, map(cb, cur))

ApplyTap == \E cb \in EffectCbs : Stage("tap", <<cb>>, tap(cb, cur))

ApplyMapError == \E cb \in ValueCbs : Stage("mapError", <<cb>>, mapError(cb, cur))

ApplyTapError == \E cb \in EffectCbs : Stage("tapError", <<cb>>, tapError(cb, cur))

ApplyTapErrorTag ==
  \E tag \in Tags, cb \in EffectCbs :
    Stage("tapErrorTag", <<tag, cb>>, tapErrorTag(tag, cb, cur))

ApplyFilterOrElse ==
  \E p \in PredicateCbs, cb \in ValueCbs :
    Stage("filterOrElse", <<p, cb>>, filterOrElse(p, cb, cur))

ApplyFilterOrFail ==
  \E p \in PredicateCbs, cb \in ValueCbs :
    Stage("filterOrFail", <<p, cb>>, filterOrFail(p, cb, cur))

ApplyFilterOrDie ==
  \E p \in PredicateCbs, cb \in DieCbs :
    Stage("filterOrDie", <<p, cb>>, filterOrDie(p, cb, cur))

ApplyCatchAll == \E cb \in ResultCbs : Stage("catchAll", <<cb>>, catchAll(cb, cur))

ApplyCatchIf ==
  \E p \in PredicateCbs, cb \in ResultCbs :
    Stage("catchIf", <<p, cb>>, catchIf(p, cb, cur))

ApplyCatchSome == \E cb \in SomeCbs : Stage("catchSome", <<cb>>, catchSome(cb, cur))

ApplyCatchTag ==
  \E tag \in Tags, cb \in ResultCbs :
    Stage("catchTag", <<tag, cb>>, catchTag(tag, cb, cur))

ApplyCatchTags ==
  \E h \in HandlerMaps : Stage("catchTags", <<h>>, catchTags(h, cur))

ApplyOrElse == \E cb \in ResultCbs : Stage("orElse", <<cb>>, orElse(cb, cur))

ApplyOrElseFail ==
  \E cb \in ValueCbs : Stage("orElseFail", <<cb>>, orElseFail(cb, cur))

ApplyOrElseSucceed ==
  \E cb \in ValueCbs : Stage("orElseSucceed", <<cb>>, orElseSucceed(cb, cur))

ApplyOrDie == Stage("orDie", <<>>, orDie(cur))

ApplyOrDieWith ==
  \E cb \in DieWithCbs : Stage("orDieWith", <<cb>>, orDieWith(cb, cur))

ApplySchema ==
  \E version \in SchemaVersions, s \in Schemas :
    Stage("schema", <<version, s>>, schema(version, s, cur))

Next ==
  \/ ConstructOk
  \/ ConstructError
  \/ ConstructTry
  \/ ConstructTryPromise
  \/ ConstructFail
  \/ ConstructWrap
  \/ ApplyFlatMap
  \/ ApplyMap
  \/ ApplyTap
  \/ ApplyMapError
  \/ ApplyTapError
  \/ ApplyTapErrorTag
  \/ ApplyFilterOrElse
  \/ ApplyFilterOrFail
  \/ ApplyFilterOrDie
  \/ ApplyCatchAll
  \/ ApplyCatchIf
  \/ ApplyCatchSome
  \/ ApplyCatchTag
  \/ ApplyCatchTags
  \/ ApplyOrElse
  \/ ApplyOrElseFail
  \/ ApplyOrElseSucceed
  \/ ApplyOrDie
  \/ ApplyOrDieWith
  \/ ApplySchema

Spec == Init /\ [][Next]_vars

-----------------------------------------------------------------------------
\* gen(generator), step by step (src/src/result.ts, gen).

\* gen returns c.
GenDone(why, c) ==
  /\ gpc' = "done"
  /\ stop' = why
  /\ gres' = c

\* const iterator = generator(), inside gen's try block.
GenCreate ==
  /\ gpc = "idle"
  /\ \E p \in Programs :
    /\ prog' = p
    /\ IF p.creation = "throw"
       THEN GenDone("threw", Ret(genFailure(CreationError)))
       ELSE gpc' = "created" /\ UNCHANGED <<stop, gres>>
    /\ UNCHANGED <<g, gcur, pulls, closes, chainVars, retryVars>>

\* const first = iterator.next(), inside gen's try block.
GenFirstPull ==
  /\ gpc = "created"
  /\ \E st \in NextStmts(prog.body) :
     LET p == Reaching(prog, st)
         r == IteratorNext(p, g, Undef)
     IN /\ prog' = p
        /\ g' = r.g
        /\ pulls' = pulls + 1
        /\ IF r.out = "throw"
           THEN GenDone("threw", Ret(genFailure(r.v))) /\ UNCHANGED gcur
           ELSE gpc' = "pulled" /\ gcur' = r.v /\ UNCHANGED <<stop, gres>>
  /\ UNCHANGED <<closes, chainVars, retryVars>>

\* The flavor check of gen on the first pull.
GenDispatch ==
  /\ gpc = "pulled"
  /\ IF IsPromise(gcur)
     THEN IF ~isAsyncIterator(prog)
          THEN GenDone("mismatch", Ret(genFailure(gcur)))
          ELSE gpc' = "async" /\ UNCHANGED <<stop, gres>>
     ELSE IF isAsyncIterator(prog)
          THEN GenDone("mismatch", Ret(genFailure(gcur)))
          ELSE gpc' = "sync" /\ UNCHANGED <<stop, gres>>
  /\ UNCHANGED <<prog, g, gcur, pulls, closes, chainVars, retryVars>>

\* A driver's pass came to r, the generator function being p if the pass
\* pulled a step.
GenPass(p, r) ==
  /\ prog' = IF r.pulled THEN p ELSE prog
  /\ g' = r.g
  /\ closes' = IF r.closed THEN closes + 1 ELSE closes
  /\ IF r.fin
     THEN GenDone(r.why, r.res) /\ UNCHANGED <<gcur, pulls>>
     ELSE /\ gcur' = r.next
          /\ pulls' = pulls + 1
          /\ UNCHANGED <<gpc, stop, gres>>
  /\ UNCHANGED <<chainVars, retryVars>>

\* The statements the generator may reach if it is resumed now.
Reachable == IF NextStmts(prog.body) = {} THEN {[s |-> "end"]} ELSE NextStmts(prog.body)

GenSyncStep ==
  /\ gpc = "sync"
  /\ \E st \in Reachable :
       GenPass(Reaching(prog, st), runSyncGen(Reaching(prog, st), g, gcur))

GenAsyncStep ==
  /\ gpc = "async"
  /\ \E st \in Reachable :
       GenPass(Reaching(prog, st), runAsyncGen(Reaching(prog, st), g, gcur))

NextGen ==
  \/ GenCreate
  \/ GenFirstPull
  \/ GenDispatch
  \/ GenSyncStep
  \/ GenAsyncStep

SpecGen == Init /\ [][NextGen]_vars

-----------------------------------------------------------------------------
\* retry(effect, options) and eventually(effect, options), step by step
\* (src/src/retries.ts).

RetryCall ==
  /\ rpc = "idle"
  /\ \E version \in RetryVersions, times \in TimesOptions, delay \in DelayOptions,
        out \in EffectOutcomes :
       RetryEnters([entry |-> "retry", version |-> version, times |-> times,
                    delay |-> delay],
                   EffectResult(version, 1, out))

\* eventually: retry(effect, { times: Number.POSITIVE_INFINITY, delay })
EventuallyCall ==
  /\ rpc = "idle"
  /\ \E version \in RetryVersions, delay \in DelayOptions, out \in EffectOutcomes :
       RetryEnters([entry |-> "eventually", version |-> version,
                    times |-> Infinity, delay |-> delay],
                   EffectResult(version, 1, out))

\* One pass of the while loop of retry.
RetrySyncPass ==
  /\ rpc = "sync"
  /\ UNCHANGED ropts
  /\ IF Field(rcurrent, Discriminant(ropts.version)) = Str("ok")
     THEN RetryReturns(rcurrent, <<>>)
     ELSE
     LET context == RetryContext(rattempt, rcurrent)
         t == resolveTimes(ropts.times, context)
     IN IF ~t.v THEN RetryReturns(rcurrent, t.calls)
        ELSE
        LET d == resolveDelay(ropts.delay, context)
        IN IF d.v > 0
           THEN \* return retryAsync(effect, options, current, delayMs)
                RetryGoes("async", 0, rcurrent, Num(d.v), t.calls \o d.calls, Undef)
           ELSE /\ invocations < MaxCalls
                /\ \E out \in EffectOutcomes :
                     LET next == EffectResult(ropts.version, invocations + 1, out)
                     IN IF IsPromise(next)
                        THEN \* return retryAsync(effect, options)
                             RetryGoes("asyncEntry", 0, Undef, Undef,
                                       t.calls \o d.calls
                                         \o <<EffectEvent(invocations + 1, next, FALSE)>>,
                                       Undef)
                        ELSE RetryGoes("sync", rattempt + 1, next, Undef,
                                       t.calls \o d.calls
                                         \o <<EffectEvent(invocations + 1, next, TRUE)>>,
                                       Undef)

\* retryAsync called without firstResult: current = await effect()
RetryAsyncEntry ==
  /\ rpc = "asyncEntry"
  /\ UNCHANGED ropts
  /\ invocations < MaxCalls
  /\ \E out \in EffectOutcomes :
       LET next == EffectResult(ropts.version, invocations + 1, out)
       IN RetryGoes("async", 0, Await(next).v, Undef,
                    <<EffectEvent(invocations + 1, next, TRUE)>>, Undef)

\* One pass of the while loop of retryAsync; the async function returns a
\* promise of what its body returns.
RetryAsyncPass ==
  /\ rpc = "async"
  /\ UNCHANGED ropts
  /\ IF Field(rcurrent, Discriminant(ropts.version)) = Str("ok")
     THEN RetryReturns(Prom("fulfilled", rcurrent), <<>>)
     ELSE
     LET context == RetryContext(rattempt, rcurrent)
         t == resolveTimes(ropts.times, context)
     IN IF ~t.v THEN RetryReturns(Prom("fulfilled", rcurrent), t.calls)
        ELSE
        LET d == IF rattempt = 0 /\ rfirstDelay # Undef
                 THEN [v |-> rfirstDelay.n, calls |-> <<>>]
                 ELSE resolveDelay(ropts.delay, context)
        IN /\ invocations < MaxCalls
           /\ \E out \in EffectOutcomes :
                LET next == EffectResult(ropts.version, invocations + 1, out)
                IN RetryGoes("async", rattempt + 1, Await(next).v, rfirstDelay,
                             t.calls \o d.calls \o sleep(d.v)
                               \o <<EffectEvent(invocations + 1, next, TRUE)>>,
                             Undef)

NextRetry ==
  \/ RetryCall
  \/ EventuallyCall
  \/ RetrySyncPass
  \/ RetryAsyncEntry
  \/ RetryAsyncPass

SpecRetry == Init /\ [][NextRetry]_vars

-----------------------------------------------------------------------------
\* Properties of the chain.

CombinatorNames ==
  {"map", "flatMap", "tap", "mapError", "tapError", "tapErrorTag",
   "filterOrElse", "filterOrFail", "filterOrDie", "catchAll", "catchIf",
   "catchSome", "catchTag", "catchTags", "orElse", "orElseFail",
   "orElseSucceed", "orDie", "orDieWith"}

SuccessInspecting ==
  {"map", "flatMap", "tap", "filterOrElse", "filterOrFail", "filterOrDie"}

FailureInspecting == CombinatorNames \ SuccessInspecting

\* The last stage was a combinator, and it returned.
Returned == op.name \in CombinatorNames /\ pc = "chain"

\* The last stage was a combinator, whether it returned or threw.
Applied == op.name \in CombinatorNames /\ pc \in {"chain", "thrown"}

\* v is a failure, resolved or behind a handle.
FailureIn(v) ==
  \/ v.k = "obj" /\ DOMAIN v.f = {"type", "error"} /\ v.f.type = Str("error")
  \/ /\ v.k = "promise" /\ v.st = "fulfilled" /\ v.v.k = "obj"
     /\ DOMAIN v.v.f = {"type", "error"} /\ v.v.f.type = Str("error")

\* v is a success, resolved or behind a handle.
SuccessIn(v) ==
  \/ v.k = "obj" /\ DOMAIN v.f = {"type", "value"} /\ v.f.type = Str("ok")
  \/ /\ v.k = "promise" /\ v.st = "fulfilled" /\ v.v.k = "obj"
     /\ DOMAIN v.v.f = {"type", "value"} /\ v.v.f.type = Str("ok")

\* The error payload of a failure for which FailureIn holds.
PayloadOf(v) == IF v.k = "promise" THEN v.v.f.error ELSE v.f.error

\* e is an object whose tag property is the string t.
TaggedAs(e, t) ==
  \/ e.k = "obj" /\ "tag" \in DOMAIN e.f /\ e.f.tag = Str(t)
  \/ e.k = "exc" /\ e.tag = t

SomeCallReturnedHandle ==
  \E i \in DOMAIN calls : calls[i].out = "return" /\ calls[i].v.k = "promise"

C2_ShortCircuit ==
  (Applied /\ op.name \in SuccessInspecting /\ FailureIn(prev)) =>
    (pc = "chain" /\ cur = prev /\ calls = <<>>)

C2_Witness ==
  /\ Returned /\ op.name = "filterOrDie" /\ FailureIn(prev)
  /\ prev.k = "promise" /\ cur = prev

\* The stage at hand does not recognize the failure payload e: its tag is not
\* the configured one, or the configured predicate answers false for it.
Unrecognized(e) ==
  CASE op.name \in {"catchTag", "tapErrorTag"} -> ~TaggedAs(e, op.cfg[1].s)
    [] op.name = "catchIf" ->
         LET c == Behave(op.cfg[1], e) IN c.out = "return" /\ ~Truthy(c.v)
    [] OTHER -> FALSE

\* C3: catchTag(X, f) on a failure that is untagged or tagged otherwise,
\* catchIf(pred, f) on a failure pred rejects, and tapErrorTag(X, f) on a
\* failure not tagged X return the original failure with the identical
\* payload and never invoke f.
C3_PassThrough ==
  ( /\ Applied /\ op.name \in {"catchTag", "catchIf", "tapErrorTag"}
    /\ FailureIn(prev) /\ Unrecognized(PayloadOf(prev)) )
  => ( /\ pc = "chain" /\ cur = prev
       /\ \A i \in DOMAIN calls : calls[i].fn \notin {"handle", "callback"} )

C3_Witness ==
  /\ Returned /\ op.name = "catchTag" /\ op.cfg[1] = Str("X")
  /\ FailureIn(prev) /\ TaggedAs(PayloadOf(prev), "Y") /\ cur = prev

\* C4: a failure-inspecting combinator applied to a success, resolved or
\* pending, returns that success unchanged, invokes no callback and raises
\* nothing.
C4_SuccessUntouched ==
  (Applied /\ op.name \in FailureInspecting /\ SuccessIn(prev)) =>
    (pc = "chain" /\ cur = prev /\ calls = <<>>)

C4_Witness ==
  /\ Returned /\ op.name = "orDie" /\ SuccessIn(prev) /\ prev.k = "promise"
  /\ cur = prev

\* The failure variant holding e, and the earlier iteration's.
FailureOf(e) == [k |-> "obj", f |-> [type |-> Str("error"), error |-> e]]
LegacyFailureOf(e) == [k |-> "obj", f |-> [type |-> Str("failure"), error |-> e]]

OutcomeIsResult(v) ==
  \/ isResult(v)
  \/ v.k = "promise" /\ v.st = "fulfilled" /\ isResult(v.v)

\* C10: a chain started by ok/error (from a plain value or from a handle that
\* fulfils) or by try/tryPromise, through non-escaping combinators whose
\* callbacks return normally, raises nothing and rejects nothing: its outcome
\* is a success or a failure.
C10_ChainNeverThrows ==
  ( /\ op.name \in CombinatorNames \cup {"ok", "error", "try", "tryPromise"}
    /\ ~escaping /\ ~abnormal
    /\ ~(seed.k = "promise" /\ seed.st = "rejected") )
  => (pc = "chain" /\ OutcomeIsResult(cur))

-----------------------------------------------------------------------------
\* Properties of gen.

\* The flavors gen drives: the iterator's flavor and its first pull agree.
DrivenKinds == {"sync", "async", "wrapped"}

Finished == gpc = "done" /\ prog.kind \in DrivenKinds

\* v is a failure / a success as the library builds them.
IsFailureValue(v) ==
  \/ v.k = "obj" /\ {"type", "error"} \subseteq DOMAIN v.f /\ v.f.type = Str("error")
  \/ v.k = "exc"

IsSuccessValue(v) ==
  v.k = "obj" /\ {"type", "value"} \subseteq DOMAIN v.f /\ v.f.type = Str("ok")

SuccessOf(x) == [k |-> "obj", f |-> [type |-> Str("ok"), value |-> x]]

\* The failure gen converts a thrown or malformed value x into.
Converted(x) == FailureOf([k |-> "exc", tag |-> "UnknownException", cause |-> x])

\* What the step at which the generator was last suspended yielded, and that
\* value once awaited (the async flavors await a handle, the sync one does not).
Yielded == prog.body[g.pos].v

YieldedResolved ==
  IF prog.kind # "sync" /\ Yielded.k = "promise" THEN Yielded.v ELSE Yielded

YieldedRejected ==
  prog.kind # "sync" /\ Yielded.k = "promise" /\ Yielded.st = "rejected"

\* gen returned the Result r: r itself in the sync flavor, a handle that
\* resolves to r in the async flavor.
Delivered(r) ==
  /\ gres.out = "return"
  /\ gres.v = IF prog.kind = "sync" THEN r
              ELSE [k |-> "promise", st |-> "fulfilled", v |-> r]

\* gen finished on a step that yielded a failure.
StoppedOnFailure ==
  Finished /\ g.pos >= 1 /\ ~YieldedRejected /\ IsFailureValue(YieldedResolved)

\* C5 (as amended): when a step yields a failure f, no further step is pulled,
\* a finally block enclosing that yield runs exactly once, and gen's result is
\* exactly f unless that finally block throws; if it throws x, the result is
\* the failure holding an UnknownException whose cause is x.
C5_FailureEndsSequence ==
  StoppedOnFailure =>
    /\ pulls = g.pos
    /\ Len(g.received) = g.pos - 1
    /\ g.state = "completed"
    /\ InTry(prog, g.pos) => g.finRuns = 1
    /\ Delivered(IF InTry(prog, g.pos) /\ prog.fin = "throw"
                 THEN Converted(CleanupError)
                 ELSE YieldedResolved)

C5_Witness ==
  /\ StoppedOnFailure /\ InTry(prog, g.pos) /\ prog.fin = "plain"
  /\ g.pos = 2 /\ g.finRuns = 1 /\ Delivered(YieldedResolved)

\* C5 as stated: the result is exactly f whenever a step yields a failure f.
C5_Original ==
  StoppedOnFailure =>
    /\ pulls = g.pos
    /\ InTry(prog, g.pos) => g.finRuns = 1
    /\ Delivered(YieldedResolved)

\* Something threw inside the sequence: the generator function, the generator
\* (a step or a finally block), or a yielded handle gen awaited.
SomethingThrew ==
  \/ prog.creation = "throw"
  \/ g.throws # <<>>
  \/ g.pos >= 1 /\ g.state = "suspended" /\ YieldedRejected

ThrownValue ==
  IF prog.creation = "throw" THEN CreationError
  ELSE IF g.throws # <<>> THEN g.throws[Len(g.throws)]
  ELSE Yielded.v

\* C6: gen never throws and never returns a handle that rejects; whenever
\* something threw inside the sequence, gen returns the failure holding an
\* UnknownException whose cause is the thrown value: resolved in the sync
\* flavor and whenever gen itself caught it on creating the generator or on
\* the first pull, behind a handle once the async driver runs.
C6_NoExceptionEscapes ==
  gpc = "done" =>
    /\ gres.out = "return"
    /\ ~(gres.v.k = "promise" /\ gres.v.st = "rejected")
    /\ (prog.kind \in DrivenKinds /\ SomethingThrew) =>
         /\ gres.v \in {Converted(ThrownValue),
                        [k |-> "promise", st |-> "fulfilled",
                         v |-> Converted(ThrownValue)]}
         /\ prog.kind = "sync" => gres.v.k # "promise"
         /\ prog.kind = "async" => gres.v.k = "promise"
         /\ (prog.kind = "wrapped" /\ pulls >= 2) => gres.v.k = "promise"

C6_Witness ==
  /\ Finished /\ prog.kind = "async" /\ g.throws = <<CleanupError>>
  /\ g.pos = 1 /\ closes = 1 /\ Delivered(Converted(CleanupError))

\* gen finished on a step that yielded a value that is no Result.
StoppedOnMalformed ==
  /\ Finished /\ g.pos >= 1 /\ ~YieldedRejected
  /\ ~IsFailureValue(YieldedResolved) /\ ~IsSuccessValue(YieldedResolved)

\* C7: when a step yields a value y that is not a well-formed Result (once
\* awaited, in the async flavor), gen returns the failure holding an
\* UnknownException whose cause is y, and the generator is never resumed with
\* anything drawn from y; nothing the generator received comes from a yield
\* that was not a success.
C7_MalformedYield ==
  /\ StoppedOnMalformed =>
       /\ Delivered(Converted(YieldedResolved))
       /\ pulls = g.pos
       /\ Len(g.received) = g.pos - 1
       /\ g.state = "suspended"
  /\ (gpc = "done" /\ prog.kind \in DrivenKinds) =>
       \A i \in DOMAIN g.received :
         LET y == prog.body[i].v
         IN IsSuccessValue(IF prog.kind # "sync" /\ y.k = "promise" THEN y.v ELSE y)

C7_Witness ==
  /\ StoppedOnMalformed /\ g.pos = 2 /\ Yielded = Obj([type |-> Str("ok")])
  /\ Len(g.received) = 1 /\ Delivered(Converted(Yielded))

\* The generator ran to its own return.
RanToReturn == Finished /\ g.returned # <<>>

\* What the closing statement of the body returns, given what the generator
\* received from its yields.
ReturnedByBody ==
  LET st == prog.body[Len(prog.body)]
      n == IF g.received = <<>> THEN Undef ELSE g.received[Len(g.received)]
  IN CASE st.s = "return" -> st.v
       [] st.s = "returnSent" -> n
       [] st.s = "returnSentPlus1" -> IF n.k = "num" THEN [k |-> "num", n |-> n.n + 1] ELSE n
       [] OTHER -> Undef

\* C8: when the steps yield successes s1..sn and the generator then returns r,
\* the i-th yield expression evaluates to the payload of si, and gen's result
\* is r itself when r is a Result and success(r) otherwise.
C8_SuccessesFeedBack ==
  RanToReturn =>
    /\ Len(g.received) = Len(prog.body) - 1
    /\ pulls = Len(prog.body)
    /\ \A i \in DOMAIN g.received :
         LET y == prog.body[i].v
             s == IF prog.kind # "sync" /\ y.k = "promise" THEN y.v ELSE y
         IN IsSuccessValue(s) /\ g.received[i] = s.f.value
    /\ LET r == ReturnedByBody
       IN Delivered(IF IsFailureValue(r) \/ IsSuccessValue(r) THEN r ELSE SuccessOf(r))

C8_Witness ==
  /\ RanToReturn /\ prog.kind = "sync"
  /\ prog.body = <<[s |-> "yield", v |-> SuccessOf([k |-> "num", n |-> 1])],
                   [s |-> "returnSentPlus1"]>>
  /\ gres.v = SuccessOf([k |-> "num", n |-> 2])

-----------------------------------------------------------------------------
\* Properties of the escaping combinators.

\* orDie or orDieWith was applied to a failure.
DiedOnFailure ==
  Applied /\ op.name \in {"orDie", "orDieWith"} /\ FailureIn(prev)

\* The stage raised x at its point of the chain: synchronously for a resolved
\* input, as the rejection of the handle it returned for a pending input.
RaisedHere(x) ==
  IF prev.k = "promise"
  THEN pc = "chain" /\ cur = [k |-> "promise", st |-> "rejected", v |-> x]
  ELSE pc = "thrown" /\ raised = x

\* What the stage raised, when it raised.
Raised == IF prev.k = "promise" THEN cur.v ELSE raised

\* C11: orDie() applied to failure(e) raises e, synchronously for a resolved
\* input and as the rejection reason of the returned handle for a pending one;
\* orDieWith(f) invokes f exactly once, with e, and raises what f(e) comes to.
C11_OrDieRaises ==
  DiedOnFailure =>
    IF op.name = "orDie"
    THEN calls = <<>> /\ RaisedHere(PayloadOf(prev))
    ELSE /\ Len(calls) = 1
         /\ calls[1].fn = "mapError"
         /\ calls[1].arg = PayloadOf(prev)
         /\ RaisedHere(calls[1].v)

C11_Witness ==
  /\ DiedOnFailure /\ op.name = "orDieWith" /\ prev.k = "promise"
  /\ op.cfg[1] = [beh |-> "ret", v |-> [k |-> "num", n |-> 1]]
  /\ cur = [k |-> "promise", st |-> "rejected", v |-> [k |-> "num", n |-> 1]]

\* The cause field of a raised value (undefined when it has none).
CauseOf(x) ==
  CASE x.k = "exc" -> x.cause
    [] x.k = "obj" /\ "cause" \in DOMAIN x.f -> x.f.cause
    [] OTHER -> [k |-> "undef"]

\* C12 (as amended): the escaping combinators add no cause of their own.
\* orDie raises the payload e itself, so the cause field of what is raised is
\* e's own cause field; orDieWith(f) raises exactly what f returned, whose
\* cause field is whatever f gave it.
C12_NoCauseAdded ==
  DiedOnFailure =>
    LET e == PayloadOf(prev)
    IN IF op.name = "orDie"
       THEN Raised = e /\ CauseOf(Raised) = CauseOf(e)
       ELSE /\ Raised = calls[1].v
            /\ op.cfg[1].beh = "wrapCause" => CauseOf(Raised) = e
            /\ op.cfg[1].beh = "ret" => CauseOf(Raised) = CauseOf(op.cfg[1].v)

C12_Witness ==
  /\ DiedOnFailure /\ op.name = "orDie" /\ pc = "thrown"
  /\ raised = [k |-> "exc", tag |-> "UnknownException", cause |-> [k |-> "str", s |-> "boom"]]
  /\ CauseOf(raised) # PayloadOf(prev)

\* C12 as stated: the payload e is the cause field of the raised exception.
C12_Original ==
  (DiedOnFailure /\ (op.name = "orDieWith" => calls[1].out = "return")) =>
    CauseOf(Raised) = PayloadOf(prev)

-----------------------------------------------------------------------------
\* Properties of retry and eventually.

\* The calls of the effect, in order.
EffectCalls == SelectSeq(rlog, LAMBDA e : e.ev = "effect")

\* What a call of the effect came to, once its handle resolved.
Outcome(e) == IF e.out.k = "promise" THEN e.out.v ELSE e.out

Succeeded(e) == "value" \in DOMAIN Outcome(e).f

\* What retry returned, once its handle resolved.
RetryResult == IF rres.k = "promise" THEN rres.v ELSE rres

RetryDone(entry) == rpc = "done" /\ ropts.entry = entry

\* retry was given a fixed cap (or none, which means the default) and every
\* call of the effect failed.
CappedAllFailed ==
  /\ RetryDone("retry") /\ ropts.times.k \in {"undef", "num"}
  /\ \A i \in DOMAIN EffectCalls : ~Succeeded(EffectCalls[i])

Cap == IF ropts.times.k = "undef" THEN DefaultTimes ELSE ropts.times.n

\* C13 (as amended): with a fixed cap n (3 when times is left out) and an
\* effect that always fails, retry terminates and returns the failure of the
\* last invocation, after at least n + 1 invocations: exactly n + 1 when every
\* invocation returned a resolved failure and delay is not a function, and
\* exactly n + 2 when every invocation returned a pending handle.
C13_RetryTerminates ==
  CappedAllFailed =>
    /\ RetryResult = Outcome(EffectCalls[Len(EffectCalls)])
    /\ RetryResult.f.error = [k |-> "num", n |-> invocations]
    /\ invocations >= Cap + 1
    /\ ( /\ \A i \in DOMAIN EffectCalls : EffectCalls[i].out.k # "promise"
         /\ ropts.delay.k # "fn" ) => invocations = Cap + 1
    /\ (\A i \in DOMAIN EffectCalls : EffectCalls[i].out.k = "promise")
         => invocations = Cap + 2

C13_Witness ==
  /\ CappedAllFailed /\ ropts.version = 2 /\ ropts.times.k = "undef"
  /\ ropts.delay.k = "undef" /\ rres.k = "obj" /\ invocations = 4
  /\ rres.f.error = [k |-> "num", n |-> 4]

\* C13 as stated: exactly n invocations.
C13_Original ==
  CappedAllFailed =>
    /\ invocations = Cap
    /\ RetryResult = Outcome(EffectCalls[Len(EffectCalls)])

\* The times function said yes to the failure of the j-th call of the effect.
AskedAndGranted(j) ==
  \E i \in DOMAIN rlog :
    /\ rlog[i].ev = "times"
    /\ rlog[i].error = Outcome(EffectCalls[j]).f.error
    /\ resolveTimes(ropts.times,
                    [attempt |-> rlog[i].attempt, error |-> rlog[i].error]).v

AskedAndRefused(j) ==
  \E i \in DOMAIN rlog :
    /\ rlog[i].ev = "times"
    /\ rlog[i].error = Outcome(EffectCalls[j]).f.error
    /\ ~resolveTimes(ropts.times,
                     [attempt |-> rlog[i].attempt, error |-> rlog[i].error]).v

\* C14: with times a predicate, every invocation of the effect but the first
\* follows a failed invocation for whose context the predicate returned true;
\* no invocation follows a success; retry returns the first success, or the
\* first failure the predicate refused.
C14_PredicateGoverns ==
  (rpc # "idle" /\ ropts.entry = "retry" /\ ropts.times.k = "fn") =>
    /\ \A j \in 1..(Len(EffectCalls) - 1) :
         ~Succeeded(EffectCalls[j]) /\ AskedAndGranted(j)
    /\ rpc = "done" =>
         /\ RetryResult = Outcome(EffectCalls[Len(EffectCalls)])
         /\ ~Succeeded(EffectCalls[Len(EffectCalls)])
              => AskedAndRefused(Len(EffectCalls))

\* C15: eventually returns only a success, the first one the effect
\* produces, and does not invoke the effect after it.
C15_EventuallySucceeds ==
  (rpc # "idle" /\ ropts.entry = "eventually") =>
    /\ \A j \in 1..(Len(EffectCalls) - 1) : ~Succeeded(EffectCalls[j])
    /\ rpc = "done" =>
         /\ Succeeded(EffectCalls[Len(EffectCalls)])
         /\ RetryResult = Outcome(EffectCalls[Len(EffectCalls)])

-----------------------------------------------------------------------------
\* Properties of the recovering combinators.

\* The stage's outcome is that of its handler, which completed as c: as it is
\* for a resolved input, through the returned handle for a pending one.
StageCameTo(c) ==
  IF prev.k = "promise"
  THEN /\ pc = "chain"
       /\ cur = IF c.out = "throw" THEN [k |-> "promise", st |-> "rejected", v |-> c.v]
                ELSE IF c.v.k = "promise" THEN c.v
                ELSE [k |-> "promise", st |-> "fulfilled", v |-> c.v]
  ELSE IF c.out = "throw" THEN pc = "thrown" /\ raised = c.v
       ELSE pc = "chain" /\ cur = c.v

\* e is an object with a string tag property.
HasStringTag(e) ==
  \/ e.k = "obj" /\ "tag" \in DOMAIN e.f /\ e.f.tag.k = "str"
  \/ e.k = "exc"

TagOf(e) == IF e.k = "exc" THEN e.tag ELSE e.f.tag.s

\* C16: catchTags(map) on a failure tagged t with t a key of map invokes
\* map[t] once, with the payload, and no other handler, and returns what it
\* returns; on a failure that is untagged or tagged with a string that is no
\* key of map it returns the original failure and invokes nothing.
C16_CatchTags ==
  (Applied /\ op.name = "catchTags" /\ FailureIn(prev)) =>
    LET e == PayloadOf(prev)
        handlers == op.cfg[1]
    IN IF HasStringTag(e) /\ TagOf(e) \in DOMAIN handlers
       THEN /\ Len(calls) = 1
            /\ calls[1].fn = TagOf(e)
            /\ calls[1].arg = e
            /\ StageCameTo(Behave(handlers[TagOf(e)], e))
       ELSE pc = "chain" /\ cur = prev /\ calls = <<>>

\* v is a Result or a handle that resolves to one.
IsReplacement(v) ==
  \/ IsFailureValue(v) \/ IsSuccessValue(v)
  \/ /\ v.k = "promise" /\ v.st = "fulfilled"
     /\ (IsFailureValue(v.v) \/ IsSuccessValue(v.v))

\* C17: catchSome(f) on failure(e) invokes f once, with e; when f returns a
\* Result or a handle to a Result the outcome is that replacement, when f
\* returns undefined the outcome is the original failure.
C17_CatchSome ==
  (Applied /\ op.name = "catchSome" /\ FailureIn(prev)) =>
    /\ Len(calls) = 1
    /\ calls[1].arg = PayloadOf(prev)
    /\ (calls[1].out = "return" /\ IsReplacement(calls[1].v))
         => StageCameTo([out |-> "return", v |-> calls[1].v])
    /\ (calls[1].out = "return" /\ calls[1].v = [k |-> "undef"])
         => (pc = "chain" /\ cur = prev)

-----------------------------------------------------------------------------
\* Properties of the guarded invocations.

LegacySuccessOf(x) == [k |-> "obj", f |-> [type |-> Str("success"), value |-> x]]

\* The function returned by try, or by the earlier wrap given a callback that
\* returns no handle, was called.
TriedSync ==
  \/ op.name = "try"
  \/ op.name = "wrap" /\ (op.cfg[1].beh = "throw" \/ op.cfg[1].v.k # "promise")

\* C18: the function returned by try(callback[, onError]) or by the earlier
\* wrap never throws: it returns success(v) when callback returns v, and when
\* callback throws c it returns failure(onError(c)) if onError was given,
\* else the failure holding an UnknownException whose cause is c.
C18_TryNeverThrows ==
  TriedSync =>
    LET callback == op.cfg[1]
        onError == op.cfg[2]
        old == op.name = "wrap"
        thrown == [k |-> "exc", tag |-> "UnknownException", cause |-> callback.v]
    IN /\ pc # "thrown"
       /\ callback.beh = "ret" =>
            cur = IF old THEN LegacySuccessOf(callback.v) ELSE SuccessOf(callback.v)
       /\ (callback.beh = "throw" /\ onError = [beh |-> "absent"]) =>
            cur = IF old THEN LegacyFailureOf(thrown) ELSE FailureOf(thrown)
       /\ (callback.beh = "throw" /\ onError.beh = "ret") =>
            /\ cur = IF old THEN LegacyFailureOf(onError.v) ELSE FailureOf(onError.v)
            /\ \E i \in DOMAIN calls :
                 calls[i].fn = "onError" /\ calls[i].arg = callback.v

\* The function returned by tryPromise, or by the earlier wrap given a
\* callback that returns a handle, was called.
TriedAsync ==
  \/ op.name = "tryPromise"
  \/ op.name = "wrap" /\ op.cfg[1].beh = "ret" /\ op.cfg[1].v.k = "promise"

\* C19: the function returned by tryPromise(callback[, onError]) returns a
\* handle that never rejects: it resolves to success(v) when callback's handle
\* fulfils with v, and when callback throws c or its handle rejects with c it
\* resolves to failure(onError(c)) if onError was given, else to the failure
\* holding an UnknownException whose cause is c.  The earlier wrap does the same
\* for a callback that returns a handle.
C19_TryPromiseNeverRejects ==
  TriedAsync =>
    LET callback == op.cfg[1]
        onError == op.cfg[2]
        old == op.name = "wrap"
        failed == callback.beh = "throw" \/ callback.v.st = "rejected"
        c == IF callback.beh = "throw" THEN callback.v ELSE callback.v.v
        thrown == [k |-> "exc", tag |-> "UnknownException", cause |-> c]
    IN /\ pc # "thrown" /\ cur.k = "promise" /\ cur.st = "fulfilled"
       /\ ~failed =>
            cur.v = IF old THEN LegacySuccessOf(callback.v.v) ELSE SuccessOf(callback.v.v)
       /\ (failed /\ onError = [beh |-> "absent"]) =>
            cur.v = IF old THEN LegacyFailureOf(thrown) ELSE FailureOf(thrown)
       /\ (failed /\ onError.beh = "ret") =>
            cur.v = IF old THEN LegacyFailureOf(onError.v) ELSE FailureOf(onError.v)

-----------------------------------------------------------------------------
\* Properties of the side-effecting combinators.

\* tap was the last stage and was given a success, resolved or behind a handle.
TapRan == op.name = "tap" /\ pc \in {"chain", "thrown"} /\ SuccessIn(prev)

\* The value of the success tap was given.
TapValue == IF prev.k = "promise" THEN prev.v.f.value ELSE prev.f.value

\* The side effect returned a handle.
EffectReturnedHandle ==
  calls # <<>> /\ calls[1].out = "return" /\ calls[1].v.k = "promise"

\* The side effect ran to completion: it returned, and a handle it returned
\* fulfilled.
EffectCompleted ==
  /\ calls # <<>> /\ calls[1].out = "return"
  /\ calls[1].v.k = "promise" => calls[1].v.st = "fulfilled"

TapOnce ==
  TapRan =>
    /\ Len(calls) = 1 /\ calls[1].fn = "callback" /\ calls[1].arg = TapValue
    /\ EffectCompleted =>
         /\ pc = "chain" /\ SuccessIn(cur)
         /\ (IF cur.k = "promise" THEN cur.v ELSE cur) = SuccessOf(TapValue)
    /\ EffectReturnedHandle =>
         /\ pc = "chain" /\ cur.k = "promise"
         /\ cur.st = calls[1].v.st
         /\ calls[1].v.st = "rejected" => cur.v = calls[1].v.v

\* The stage after a tap whose side effect returned a handle is handed the
\* handle tap returned, and invokes nothing if that handle does not fulfil.
TapThenNext ==
  (TapRan /\ EffectReturnedHandle /\ steps' = steps + 1) =>
    /\ prev' = cur /\ prev'.k = "promise"
    /\ cur.st = "rejected" => (calls' = <<>> /\ pc' = "chain" /\ cur' = cur)

\* C20: tap(f) applied to success(v) invokes f exactly once with v and, f
\* having completed, yields success(v); when f returns a handle, tap returns a
\* handle that settles as f's handle does, so the next combinator of the pipe
\* is handed that handle and runs no callback unless it fulfils.
C20_TapAwaits == [](TapOnce) /\ [][TapThenNext]_vars

C20_Witness ==
  /\ TapRan /\ prev = SuccessOf([k |-> "num", n |-> 1])
  /\ Len(calls) = 1 /\ calls[1].arg = [k |-> "num", n |-> 1]
  /\ EffectReturnedHandle /\ calls[1].v.st = "fulfilled"
  /\ cur = [k |-> "promise", st |-> "fulfilled", v |-> SuccessOf([k |-> "num", n |-> 1])]

-----------------------------------------------------------------------------
\* Laws of the algebra.

\* The last stage was map(x => x) or flatMap(x => ok(x)).
IdentityStage ==
  \/ op.name = "map" /\ op.cfg[1] = [beh |-> "id"]
  \/ op.name = "flatMap" /\ op.cfg[1] = [beh |-> "succeed"]

\* C21: map(x => x) and flatMap(x => ok(x)) applied to a Result r, success or
\* failure, return a Result equal to r; applied to a handle to r they return a
\* handle that resolves to a Result equal to r.
C21_IdentityLaws ==
  (IdentityStage /\ (SuccessIn(prev) \/ FailureIn(prev))) =>
    (pc = "chain" /\ cur = prev)

C21_Witness ==
  /\ IdentityStage /\ op.name = "flatMap" /\ pc = "chain"
  /\ prev = [k |-> "promise", st |-> "fulfilled", v |-> SuccessOf([k |-> "num", n |-> 1])]
  /\ cur = prev /\ Len(calls) = 1

\* v, or what the handle v fulfils with.
Settlement(v) == IF v.k = "promise" THEN v.v ELSE v

\* v did not end in a rejection.
Delivers(v) == v.k = "promise" => v.st = "fulfilled"

\* The guards agree that v is a Result of exactly one variant.
OneVariant(v) == isResult(v) /\ (isOk(v) # isError(v))

\* What a constructor, a guarded invocation or a combinator produced.
ChainProduced ==
  /\ pc = "chain" /\ Delivers(cur)
  /\ op.name \in CombinatorNames \cup {"ok", "error", "try", "tryPromise"}

\* What gen produced.
GenProduced == gpc = "done" /\ gres.out = "return" /\ Delivers(gres.v)

\* What retry produced, with the library whose guards are modelled.
RetryProduced == rpc = "done" /\ ropts.version = 1 /\ Delivers(rres)

\* C22: every value produced by a constructor, by try/tryPromise, by gen, by
\* retry or by a combinator is a Result for which exactly one of isOk and
\* isError is true and isResult is true.
C22_Exclusivity ==
  /\ ChainProduced => OneVariant(Settlement(cur))
  /\ GenProduced => OneVariant(Settlement(gres.v))
  /\ RetryProduced => OneVariant(Settlement(rres))

-----------------------------------------------------------------------------
\* Properties of the filtering combinators.

\* filterOrFail was the last stage, it was given a success, and its predicate
\* answered.
FilterOrFailAnswered ==
  /\ op.name = "filterOrFail" /\ pc \in {"chain", "thrown"} /\ SuccessIn(prev)
  /\ calls # <<>> /\ calls[1].out = "return"

\* C23: filterOrFail(pred, onFail) applied to success(v) gives success(v)
\* without invoking onFail when pred(v) holds; otherwise it invokes onFail
\* exactly once, with v, and gives failure(onFail(v)).
C23_FilterOrFail ==
  FilterOrFailAnswered =>
    LET v == Settlement(prev).f.value
    IN /\ calls[1].fn = "predicate" /\ calls[1].arg = v
       /\ Truthy(calls[1].v) =>
            (Len(calls) = 1 /\ StageCameTo(Ret(SuccessOf(v))))
       /\ ~Truthy(calls[1].v) =>
            /\ Len(calls) = 2
            /\ calls[2].fn = "orFailWith" /\ calls[2].arg = v
            /\ calls[2].out = "return" => StageCameTo(Ret(FailureOf(calls[2].v)))

C23_Witness ==
  /\ FilterOrFailAnswered /\ op.cfg[1] = [beh |-> "positive"]
  /\ prev = SuccessOf([k |-> "num", n |-> 0])
  /\ op.cfg[2] = [beh |-> "inc"]
  /\ Len(calls) = 2 /\ cur = FailureOf([k |-> "num", n |-> 1])

-----------------------------------------------------------------------------
\* Properties of schema.

\* What validate answered, once resolved.
Validation == Settlement(calls[1].v)

\* The Result the validation stands for, whatever the class of the error.
ValidationResult ==
  IF ~Truthy(Field(Validation, "issues")) THEN SuccessOf(Field(Validation, "value"))
  ELSE FailureOf([k |-> "exc",
                  tag |-> IF op.cfg[1] = 1 THEN "StandardSchemaError" ELSE "SchemaError",
                  cause |-> [k |-> "undef"],
                  issues |-> Field(Validation, "issues")])

\* C24: schema(s) applied to success(v) calls validate exactly once, with v,
\* and gives success(o) for a { value: o } outcome and a failure holding a
\* tagged schema error with the issues for an { issues } outcome, also when
\* validate returns a handle; applied to a failure it does not call validate
\* and returns the failure unchanged.
C24_Schema ==
  (op.name = "schema" /\ pc \in {"chain", "thrown"}) =>
    /\ FailureIn(prev) => (calls = <<>> /\ pc = "chain" /\ cur = prev)
    /\ SuccessIn(prev) =>
         /\ Len(calls) = 1 /\ calls[1].fn = "validate"
         /\ calls[1].arg = Settlement(prev).f.value
         /\ StageCameTo(Ret(IF calls[1].v.k = "promise"
                            THEN [k |-> "promise", st |-> "fulfilled",
                                  v |-> ValidationResult]
                            ELSE ValidationResult))

-----------------------------------------------------------------------------
\* Properties of gen: flavors and finalizers.

\* The flavors gen refuses: the iterator's flavor and its first pull disagree.
RefusedKinds == {"syncClaimsAsync", "asyncNextOnly"}

\* gen returned, at once, a failure holding an UnknownException.
ResolvedUnknownException ==
  /\ gres.out = "return" /\ gres.v.k = "obj"
  /\ DOMAIN gres.v.f = {"type", "error"} /\ gres.v.f.type = [k |-> "str", s |-> "error"]
  /\ gres.v.f.error.k = "exc" /\ gres.v.f.error.tag = "UnknownException"

\* The synchronous sequence reached a step that yields a handle.
SyncYieldedHandle ==
  /\ prog # [beh |-> "absent"] /\ prog.kind = "sync"
  /\ \E i \in 1..g.pos :
       prog.body[i].s = "yield" /\ prog.body[i].v.k = "promise"

\* C25: a synchronous sequence that yields a handle, at its first or at a
\* later step, completes at that step as a resolved failure holding an
\* UnknownException, never as a handle; an iterator whose first pull is a
\* handle although it is no async iterator, or no handle although it is an
\* async iterator, makes gen return a failure holding an UnknownException
\* without a further pull, and is never driven.
C25_FlavorMismatch ==
  /\ (SyncYieldedHandle /\ gpc = "done") =>
       /\ ResolvedUnknownException
       /\ gres.v.f.error.cause = Yielded
       /\ Yielded.k = "promise"
       /\ pulls = g.pos /\ g.state = "suspended"
  /\ SyncYieldedHandle => gpc \in {"created", "pulled", "sync", "done"}
  /\ (prog # [beh |-> "absent"] /\ prog.kind \in RefusedKinds) =>
       /\ gpc \in {"created", "pulled", "done"}
       /\ gpc = "done" =>
            /\ ResolvedUnknownException /\ pulls = 1 /\ closes = 0
            /\ stop = "mismatch" =>
                 /\ gres.v.f.error.cause = gcur
                 /\ (gcur.k = "promise") = (prog.kind = "asyncNextOnly")

C25_Witness ==
  /\ SyncYieldedHandle /\ gpc = "done" /\ g.pos = 2
  /\ prog.body[2].v = [k |-> "promise", st |-> "fulfilled",
                       v |-> SuccessOf([k |-> "num", n |-> 0])]
  /\ ResolvedUnknownException /\ gres.v.f.error.cause = prog.body[2].v

\* A refused iterator's first pull was converted.
C25_WitnessRefused ==
  /\ gpc = "done" /\ prog.kind = "asyncNextOnly" /\ stop = "mismatch"
  /\ ResolvedUnknownException /\ pulls = 1

\* gen finished on a step that yielded a handle that rejected.
StoppedOnRejected == Finished /\ g.pos >= 1 /\ YieldedRejected

\* C26: whenever gen completes on a step that yielded a failure, a value that
\* is no Result or, in the async flavor, a handle that rejected, the generator
\* is closed: it is left completed, and a finally block enclosing that yield
\* has run exactly once.
C26_FinalizersRun ==
  (StoppedOnFailure \/ StoppedOnMalformed \/ StoppedOnRejected) =>
    /\ g.state = "completed"
    /\ InTry(prog, g.pos) => g.finRuns = 1

-----------------------------------------------------------------------------
\* Properties of retry: the delay function, the effect's calls, the attempt
\* number.

\* The calls of the effect and of the delay function, in order.
EffectAndDelayCalls == SelectSeq(rlog, LAMBDA e : e.ev \in {"effect", "delay"})

\* C27: when delay is a function, retry calls it exactly once for each retry
\* it performs, between the failure and the retry, with the attempt number of
\* that retry counted from 0 and the error of the failure that precedes it,
\* and never for a failure that no retry follows.
C27_DelayPerRetry ==
  (RetryDone("retry") /\ ropts.delay.k = "fn") =>
    LET log == EffectAndDelayCalls
    IN /\ Len(log) % 2 = 1
       /\ \A i \in DOMAIN log :
            IF i % 2 = 1 THEN log[i].ev = "effect"
            ELSE /\ log[i].ev = "delay"
                 /\ log[i].attempt = (i \div 2) - 1
                 /\ ~Succeeded(log[i - 1])
                 /\ log[i].error = Outcome(log[i - 1]).f.error

\* The first call of the effect succeeded.
FirstSucceeded == rpc # "idle" /\ Succeeded(EffectCalls[1])

\* C28: retry invokes the effect exactly once when its first invocation
\* succeeds, whether it returns a resolved success or a handle that resolves
\* to a success, and returns that success.
C28_OnceOnSuccess ==
  (FirstSucceeded /\ RetryDone("retry")) =>
    /\ invocations = 1 /\ Len(EffectCalls) = 1
    /\ RetryResult = Outcome(EffectCalls[1])

\* C29: retry uses every outcome: what each call of the effect returned is
\* looked at before the next call and before retry returns, so no call is
\* made while an earlier call's handle is left unobserved.
C29_EveryOutcomeUsed ==
  \A i \in DOMAIN EffectCalls : EffectCalls[i].kept

\* The calls of the times and delay functions, in order.
ContextCalls == SelectSeq(rlog, LAMBDA e : e.ev \in {"times", "delay"})

\* C30: the attempt number handed to the times and delay functions starts at
\* 0, never decreases and grows by at most one from a call to the next, also
\* across the switch from the synchronous loop to the asynchronous one; and
\* the attempt number of a call is the number of retries made before it.
C30_AttemptCounts ==
  (rpc # "idle" /\ ropts.entry = "retry") =>
    /\ ContextCalls # <<>> => ContextCalls[1].attempt = 0
    /\ \A i \in 1..(Len(ContextCalls) - 1) :
         ContextCalls[i + 1].attempt - ContextCalls[i].attempt \in {0, 1}
    /\ \A i \in DOMAIN rlog :
         rlog[i].ev \in {"times", "delay"} =>
           rlog[i].attempt =
             Cardinality({j \in 1..(i - 1) : rlog[j].ev = "effect"}) - 1

====
